---- MODULE Spec2Model ----
(***************************************************************************)
(* QR time-punch service (src/main.py): the punch ledger written by        *)
(* POST /api/punch and the attendance report built by GET /api/export.     *)
(*                                                                         *)
(* Python values are modelled as follows.                                  *)
(*   Optional[T]    Nothing (= <<>>) for None, <<v>> for a value v         *)
(*   datetime       whole seconds since midnight of day 0 (an integer)     *)
(*   the wall clock `now`, counted in ticks of 1/TicksPerSecond second     *)
(*   a CSV row      the tuple of its columns, <<>> for writerow([])        *)
(* The columns device_label and notes of a punch are copied from the       *)
(* request and read by no code path; they are left out.                    *)
(***************************************************************************)
EXTENDS Integers, Sequences, FiniteSets, TLC

VARIABLES
    employees,      \* table employees: a set of Employee rows
    punches_tbl,    \* table punches: Punch rows in insertion order (id = position)
    now,            \* wall clock, in ticks
    response,       \* the last completed /api/punch request and its outcome
    pc, req, emp,   \* per worker thread: position in punch(), payload, resolved employee
    xpc,            \* export_csv: "idle", "scan" (in the for loop) or "done"
    punches,        \* export_csv: the query result being scanned
    idx,            \* export_csv: position of the for loop in punches
    last_emp, last_date, in_time, total_for_day,   \* export_csv locals
    rows,           \* export_csv: the rows written so far
    prev_rows       \* the rows of the previous response to the same query result, if any

ledgerVars == <<employees, punches_tbl, now, response>>
raceVars   == <<pc, req, emp>>
exportVars == <<xpc, punches, idx, last_emp, last_date, in_time, total_for_day, rows,
                prev_rows>>
vars       == <<employees, punches_tbl, now, response, pc, req, emp,
                xpc, punches, idx, last_emp, last_date, in_time, total_for_day, rows,
                prev_rows>>

----------------------------------------------------------------------------
(* Bounds of the model *)

MaxPunches == 3         \* rows the punches table may hold
MaxClock == 2           \* last tick of the wall clock
TicksPerSecond == 2     \* clock resolution: ticks in one second
MaxSnapshot == 3        \* rows of a drawn report snapshot
NumWorkers == 2         \* request threads handling /api/punch concurrently
MaxQueried == 2         \* largest table a report is requested for between punches

----------------------------------------------------------------------------
(* Python helpers *)

Nothing == <<>>

Some(v) == <<v>>

\* `x or ""` for an Optional[str]
OrEmpty(x) == IF x = Nothing \/ x[1] = "" THEN "" ELSE x[1]

\* `a or b` for Optional[int]: None and 0 are both falsy
OrElse(a, b) == IF a = Nothing \/ a[1] = 0 THEN b ELSE a

\* truthiness of an Optional[str]: None and "" are falsy
TruthyStr(x) == x # Nothing /\ x[1] # ""

\* truthiness of an Optional[date string] or Optional[datetime]: only None is falsy
TruthyObj(x) == x # Nothing

\* str.lower() and str.upper() on the action strings of the model
Lower(a) ==
    CASE a = "IN" -> "in"
      [] OTHER -> a

Upper(a) ==
    CASE a = "in" -> "IN"
      [] a = "out" -> "OUT"
      [] a = "break_in" -> "BREAK_IN"
      [] a = "break_out" -> "BREAK_OUT"
      [] a = "lunch" -> "LUNCH"
      [] OTHER -> a

\* now_local().replace(microsecond=0): the clock reading cut to whole seconds
NowTruncated(t) == t \div TicksPerSecond

----------------------------------------------------------------------------
(* Reference data *)

\* seed_defaults: id -> name of the first default departments and locations
Departments == <<"Assembly", "Fabrication">>

Locations == <<"Main Shop", "Shop 6">>

Employee(id, name, dep, loc, active, qr) ==
    [id |-> id, name |-> name, department_id |-> dep, location_id |-> loc,
     active |-> active, qr_code_value |-> qr]

\* The directory: two active employees and a deactivated one
InitEmployees ==
    { Employee(1, "Ann", Some(1), Some(1), TRUE, "QR1"),
      Employee(2, "Bob", Some(2), Nothing, TRUE, "QR2"),
      Employee(3, "Cy", Nothing, Nothing, FALSE, "QR3") }

EmployeeById(id) == CHOOSE e \in employees : e.id = id

\* the four actions the data model names
ValidActions == {"in", "out", "break_in", "break_out"}

\* PunchIn: the request body of /api/punch; action is any string
PunchIn(qr, action, m_number, loc, dep) ==
    [qr_code_value |-> qr, action |-> action, m_number |-> m_number,
     location_id |-> loc, department_id |-> dep]

\* Request bodies drawn by the sequential specification: employee 1 without
\* overrides, employee 2 overriding its location (and sending department 0),
\* an action outside ValidActions, a deactivated and an unknown code
Payloads ==
    { PunchIn("QR1", "in", m, Nothing, Nothing) :
        m \in {Nothing, Some(""), Some("J1")} }
    \cup { PunchIn("QR1", "out", Nothing, Nothing, Nothing),
           PunchIn("QR1", "lunch", Nothing, Nothing, Nothing),
           PunchIn("QR2", "in", Nothing, Some(2), Some(0)),
           PunchIn("QR3", "in", Nothing, Nothing, Nothing),
           PunchIn("QRX", "in", Nothing, Nothing, Nothing) }

\* Request bodies drawn by the concurrent specification
RacePayloads ==
    { PunchIn("QR1", "in", Nothing, Nothing, Nothing),
      PunchIn("QR1", "out", Nothing, Nothing, Nothing),
      PunchIn("QRX", "in", Nothing, Nothing, Nothing) }

Punch(id, employee_id, ts, action, m_number, loc, dep) ==
    [id |-> id, employee_id |-> employee_id, ts |-> ts, action |-> action,
     m_number |-> m_number, location_id |-> loc, department_id |-> dep]

\* outcomes of /api/punch: the message of the 200 answer, the details of the
\* 404 and 400 answers
PunchRecorded == "Punch recorded"

NotFoundError == "Employee not found"

DuplicateError == "Duplicate punch"

\* the outcome the error taxonomy names for a malformed action
ValidationError == "ValidationError"

NoResponse == [status |-> "none"]

Response(status, payload) == [status |-> status, request |-> payload]

----------------------------------------------------------------------------
(* POST /api/punch *)

\* the employee lookup without its active=True filter
ActiveEmployee_AnyState(qr) == { e \in employees : e.qr_code_value = qr }

\* db.query(Employee).filter_by(qr_code_value=..., active=True).first():
\* the set of rows the query can return (qr_code_value is unique)
ActiveEmployee(qr) == { e \in employees : e.qr_code_value = qr /\ e.active }

\* rows of one employee in the punches table
PunchesOf(employee_id) ==
    { i \in 1..Len(punches_tbl) : punches_tbl[i].employee_id = employee_id }

\* db.query(Punch).filter(employee_id == emp.id).order_by(Punch.ts.desc()).first():
\* the rows the query can return. ORDER BY ts alone leaves the order of rows
\* with equal ts to the database, so any row carrying the greatest ts may come
\* first.
LastCandidates(employee_id) ==
    { i \in PunchesOf(employee_id) :
        \A j \in PunchesOf(employee_id) : punches_tbl[j].ts <= punches_tbl[i].ts }

\* the duplicate test of punch() against the row `last`
IsDuplicate(last, payload) ==
    /\ last.action = payload.action
    /\ OrEmpty(last.m_number) = OrEmpty(payload.m_number)

\* the Punch row punch() builds
NewPunch(e, payload, ts) ==
    Punch(Len(punches_tbl) + 1, e.id, ts, payload.action, payload.m_number,
          OrElse(payload.location_id, e.location_id),
          OrElse(payload.department_id, e.department_id))

\* the write as an update of the newest row instead of an insert
Insert_ReplaceLast(p) ==
    punches_tbl' = IF punches_tbl = <<>> THEN <<p>>
                   ELSE [punches_tbl EXCEPT ![Len(punches_tbl)] = p]

\* db.add(p); db.commit()
Insert(p) == punches_tbl' = Append(punches_tbl, p)

\* punch(): the whole handler, run without interleaving
SubmitPunch(payload) ==
    /\ \A w \in 1..NumWorkers : pc[w] = "idle"
    /\ xpc = "idle"
    /\ \/ /\ ActiveEmployee(payload.qr_code_value) = {}
          /\ response' = Response(NotFoundError, payload)
          /\ UNCHANGED punches_tbl
       \/ \E e \in ActiveEmployee(payload.qr_code_value) :
            \/ /\ \E i \in LastCandidates(e.id) : IsDuplicate(punches_tbl[i], payload)
               /\ response' = Response(DuplicateError, payload)
               /\ UNCHANGED punches_tbl
            \/ /\ \/ LastCandidates(e.id) = {}
                  \/ \E i \in LastCandidates(e.id) : ~IsDuplicate(punches_tbl[i], payload)
               /\ Len(punches_tbl) < MaxPunches
               /\ Insert(NewPunch(e, payload, NowTruncated(now)))
               /\ response' = Response(PunchRecorded, payload)
    /\ UNCHANGED <<employees, now>>
    /\ UNCHANGED raceVars
    /\ UNCHANGED exportVars

\* the wall clock advances; export_csv never reads it, so its ticks are
\* taken between report requests
Tick ==
    /\ xpc = "idle"
    /\ now < MaxClock
    /\ now' = now + 1
    /\ UNCHANGED <<employees, punches_tbl, response>>
    /\ UNCHANGED raceVars
    /\ UNCHANGED exportVars

----------------------------------------------------------------------------
(* GET /api/export *)

SecondsPerDay == 86400

SecondsPerHour == 3600

SecondsPerMinute == 60

\* the datetime of hour:minute on a day
At(day, hour, minute) == day * SecondsPerDay + hour * SecondsPerHour + minute * SecondsPerMinute

\* a number printed with at least two digits (%H, %M, %S)
Pad2(n) == IF n < 10 THEN "0" \o ToString(n) ELSE ToString(n)

\* p.ts.date().isoformat(): the calendar date, days numbered from day 0
IsoDate(ts) == "day" \o ToString(ts \div SecondsPerDay)

\* p.ts.strftime("%Y-%m-%d %H:%M:%S")
Strftime(ts) ==
    IsoDate(ts) \o " " \o Pad2((ts % SecondsPerDay) \div SecondsPerHour)
        \o ":" \o Pad2((ts % SecondsPerHour) \div SecondsPerMinute)
        \o ":" \o Pad2(ts % SecondsPerMinute)

\* f"{int(delta//3600)}h {int((delta%3600)//60)}m": // is the floor division
HoursMinutes(delta) ==
    ToString(delta \div SecondsPerHour) \o "h "
        \o ToString((delta % SecondsPerHour) \div SecondsPerMinute) \o "m"

\* round(total/3600, 2) in hundredths of an hour. total * 100 / 3600 is
\* rounded to the nearest integer; a total that lies exactly between two
\* hundredths (total % 36 = 18) is rounded upward here, where Python
\* rounds the nearest float.
RoundHundredths(total) == (total * 100 + SecondsPerHour \div 2) \div SecondsPerHour

\* the repr of a float with at most two decimals: 7.5, 7.25, 0.05, 0.0
FloatRepr(n) ==
    LET a == IF n < 0 THEN 0 - n ELSE n
        frac == a % 100
    IN  (IF n < 0 THEN "-" ELSE "") \o ToString(a \div 100) \o "."
          \o (IF frac % 10 = 0 THEN ToString(frac \div 10) ELSE Pad2(frac))

\* f"{round(total_for_day/3600,2)}h"
TotalStr(total) == FloatRepr(RoundHundredths(total)) \o "h"

\* p.department.name if p.department else "" (and the same for the location):
\* the relationship is None for a NULL id and for an id no row carries
NameIn(table, id) ==
    IF id # Nothing /\ id[1] \in DOMAIN table THEN table[id[1]] ELSE ""

BlankRow == <<>>

\* the rows written before the loop
HeaderRows ==
    << BlankRow,
       <<"", "", "Optimil QR Time Punch System", "", "", "">>,
       BlankRow,
       <<"Employee", "Date", "Department", "Location", "Action", "M_Number",
         "Timestamp", "Duration">> >>

\* the TOTAL row of an employee's day
TotalRow(e, d, total) == <<e, d, "", "", "TOTAL", "", "", TotalStr(total)>>

\* the row of one punch
PunchRow(p, duration_str) ==
    << EmployeeById(p.employee_id).name,
       IsoDate(p.ts),
       NameIn(Departments, p.department_id),
       NameIn(Locations, p.location_id),
       Upper(p.action),
       OrEmpty(p.m_number),
       Strftime(p.ts),
       duration_str >>

\* `if last_emp and last_emp != emp_name`
EmployeeChanged(le, emp_name) == TruthyStr(le) /\ le[1] # emp_name

\* `if last_date and last_date != punch_date`, last_date having been set to
\* None when the employee changed
DateChanged(le, ld, emp_name, punch_date) ==
    /\ ~EmployeeChanged(le, emp_name)
    /\ TruthyObj(ld)
    /\ ld[1] # punch_date

\* the if/elif chain with the break interval added to the day total
Dispatch_BreakCounted(action, ts, it, tt) ==
    LET a == Lower(action) IN
    CASE a \in {"in", "break_in"} ->
            [in_time |-> Some(ts), total_for_day |-> tt, duration_str |-> ""]
      [] a = "out" /\ TruthyObj(it) ->
            [in_time |-> Nothing, total_for_day |-> tt + (ts - it[1]),
             duration_str |-> HoursMinutes(ts - it[1])]
      [] a = "break_out" /\ TruthyObj(it) ->
            [in_time |-> Nothing, total_for_day |-> tt + (ts - it[1]),
             duration_str |-> "BREAK " \o HoursMinutes(ts - it[1])]
      [] OTHER ->
            [in_time |-> it, total_for_day |-> tt, duration_str |-> ""]

\* the if/elif chain with `out` closing an interval that was never opened:
\* the day's midnight stands in for the missing open timestamp
Dispatch_OrphanClosed(action, ts, it, tt) ==
    LET a == Lower(action)
        open == IF TruthyObj(it) THEN it[1] ELSE ts - (ts % SecondsPerDay)
    IN
    CASE a \in {"in", "break_in"} ->
            [in_time |-> Some(ts), total_for_day |-> tt, duration_str |-> ""]
      [] a = "out" ->
            [in_time |-> Nothing, total_for_day |-> tt + (ts - open),
             duration_str |-> HoursMinutes(ts - open)]
      [] a = "break_out" /\ TruthyObj(it) ->
            [in_time |-> Nothing, total_for_day |-> tt,
             duration_str |-> "BREAK " \o HoursMinutes(ts - it[1])]
      [] OTHER ->
            [in_time |-> it, total_for_day |-> tt, duration_str |-> ""]

\* the if/elif chain on p.action: the open timestamp, the day total and the
\* duration string it leaves, from the open timestamp it and the day total tt
\* that the boundary checks left
Dispatch(action, ts, it, tt) ==
    LET a == Lower(action) IN
    CASE a = "in" ->
            [in_time |-> Some(ts), total_for_day |-> tt, duration_str |-> ""]
      [] a = "out" /\ TruthyObj(it) ->
            [in_time |-> Nothing, total_for_day |-> tt + (ts - it[1]),
             duration_str |-> HoursMinutes(ts - it[1])]
      [] a = "break_in" ->
            [in_time |-> Some(ts), total_for_day |-> tt, duration_str |-> ""]
      [] a = "break_out" /\ TruthyObj(it) ->
            [in_time |-> Nothing, total_for_day |-> tt,
             duration_str |-> "BREAK " \o HoursMinutes(ts - it[1])]
      [] OTHER ->
            [in_time |-> it, total_for_day |-> tt, duration_str |-> ""]

\* the open timestamp carried over a date change
SlotAtDispatch_KeptOverDay(le, ld, it, emp_name, punch_date) == it

\* the open timestamp and the day total after the two boundary checks
SlotAtDispatch(le, ld, it, emp_name, punch_date) ==
    IF DateChanged(le, ld, emp_name, punch_date) THEN Nothing ELSE it

TotalAtDispatch(le, ld, tt, emp_name, punch_date) ==
    IF DateChanged(le, ld, emp_name, punch_date) THEN 0 ELSE tt

\* the boundary checks without the blank row at an employee change
BoundaryRows_NoEmployeeBlank(le, ld, tt, emp_name, punch_date) ==
    IF DateChanged(le, ld, emp_name, punch_date)
    THEN <<TotalRow(le[1], ld[1], tt), BlankRow>> ELSE <<>>

\* the rows the two boundary checks write
BoundaryRows(le, ld, tt, emp_name, punch_date) ==
    (IF EmployeeChanged(le, emp_name) THEN <<BlankRow>> ELSE <<>>)
    \o (IF DateChanged(le, ld, emp_name, punch_date)
        THEN <<TotalRow(le[1], ld[1], tt), BlankRow>> ELSE <<>>)

\* ORDER BY employees.name ASC: the collation of the names of the directory
NameRank(name) ==
    CASE name = "Ann" -> 1
      [] name = "Bob" -> 2
      [] OTHER -> 3

\* p may come before q under ORDER BY Employee.name ASC, Punch.ts ASC
MayPrecede(p, q) ==
    LET pn == NameRank(EmployeeById(p.employee_id).name)
        qn == NameRank(EmployeeById(q.employee_id).name)
    IN  pn < qn \/ (pn = qn /\ p.ts <= q.ts)

\* the query with one row kept for each employee and timestamp
QueryResults_OnePerTimestamp ==
    LET n == Len(punches_tbl)
        kept == { i \in 1..n :
                    ~ \E j \in 1..(i - 1) :
                        /\ punches_tbl[j].employee_id = punches_tbl[i].employee_id
                        /\ punches_tbl[j].ts = punches_tbl[i].ts }
        orders == { f \in [1..Cardinality(kept) -> kept] :
                      /\ \A i, j \in DOMAIN f : i # j => f[i] # f[j]
                      /\ \A i, j \in DOMAIN f :
                           i < j => MayPrecede(punches_tbl[f[i]], punches_tbl[f[j]]) }
    IN  { [i \in DOMAIN f |-> punches_tbl[f[i]]] : f \in orders }

\* db.query(Punch).join(Employee).order_by(...).all(): the lists the query can
\* return, rows with equal name and ts in any order
QueryResults ==
    LET n == Len(punches_tbl)
        joined == { i \in 1..n : \E e \in employees : e.id = punches_tbl[i].employee_id }
        orders == { f \in [1..Cardinality(joined) -> joined] :
                      /\ \A i, j \in DOMAIN f : i # j => f[i] # f[j]
                      /\ \A i, j \in DOMAIN f :
                           i < j => MayPrecede(punches_tbl[f[i]], punches_tbl[f[j]]) }
    IN  { [i \in DOMAIN f |-> punches_tbl[f[i]]] : f \in orders }

\* the aggregator's variables kept from the previous call
FreshLocals_Kept ==
    UNCHANGED <<last_emp, last_date, in_time, total_for_day>>

\* last_emp, last_date = None, None; in_time, total_for_day = None, 0
FreshLocals ==
    /\ last_emp' = Nothing
    /\ last_date' = Nothing
    /\ in_time' = Nothing
    /\ total_for_day' = 0

\* export_csv up to the for loop: title, header, the query, the locals
ExportQuery ==
    /\ xpc = "idle"
    /\ \A w \in 1..NumWorkers : pc[w] = "idle"
    /\ Len(punches_tbl) <= MaxQueried
    /\ punches' \in QueryResults
    /\ rows' = HeaderRows
    /\ idx' = 1
    /\ FreshLocals
    /\ xpc' = "scan"
    /\ UNCHANGED prev_rows
    /\ UNCHANGED ledgerVars
    /\ UNCHANGED raceVars

\* one pass of the body of `for p in punches`
ExportRow ==
    /\ xpc = "scan"
    /\ idx <= Len(punches)
    /\ LET p == punches[idx]
           emp_name == EmployeeById(p.employee_id).name
           punch_date == IsoDate(p.ts)
           d == Dispatch(p.action, p.ts,
                         SlotAtDispatch(last_emp, last_date, in_time, emp_name, punch_date),
                         TotalAtDispatch(last_emp, last_date, total_for_day, emp_name, punch_date))
       IN  /\ rows' = rows \o BoundaryRows(last_emp, last_date, total_for_day, emp_name, punch_date)
                           \o <<PunchRow(p, d.duration_str)>>
           /\ in_time' = d.in_time
           /\ total_for_day' = d.total_for_day
           /\ last_emp' = Some(emp_name)
           /\ last_date' = Some(punch_date)
    /\ idx' = idx + 1
    /\ UNCHANGED <<xpc, punches, prev_rows>>
    /\ UNCHANGED ledgerVars
    /\ UNCHANGED raceVars

\* `if last_emp and last_date`: the final TOTAL row
FinalRows(le, ld, tt) ==
    IF TruthyStr(le) /\ TruthyObj(ld) THEN <<TotalRow(le[1], ld[1], tt)>> ELSE <<>>

\* export_csv after the loop
ExportFinal ==
    /\ xpc = "scan"
    /\ idx > Len(punches)
    /\ rows' = rows \o FinalRows(last_emp, last_date, total_for_day)
    /\ xpc' = "done"
    /\ UNCHANGED <<punches, idx, last_emp, last_date, in_time, total_for_day, prev_rows>>
    /\ UNCHANGED ledgerVars
    /\ UNCHANGED raceVars

\* the response has been streamed; the locals of the call are gone
ExportReturn ==
    /\ xpc = "done"
    /\ xpc' = "idle"
    /\ punches' = <<>>
    /\ rows' = <<>>
    /\ idx' = 1
    /\ last_emp' = Nothing
    /\ last_date' = Nothing
    /\ in_time' = Nothing
    /\ total_for_day' = 0
    /\ prev_rows' = Nothing
    /\ UNCHANGED ledgerVars
    /\ UNCHANGED raceVars

\* export_csv called again while the tables are unchanged and the query
\* returns the same list: the response of the first call is kept for comparison
ExportAgain ==
    /\ xpc = "done"
    /\ prev_rows = Nothing
    /\ prev_rows' = Some(rows)
    /\ rows' = HeaderRows
    /\ idx' = 1
    /\ FreshLocals
    /\ xpc' = "scan"
    /\ UNCHANGED punches
    /\ UNCHANGED ledgerVars
    /\ UNCHANGED raceVars

----------------------------------------------------------------------------

InitLedger ==
    /\ employees = InitEmployees
    /\ punches_tbl = <<>>
    /\ now = 0
    /\ response = NoResponse

InitRace ==
    /\ pc = [w \in 1..NumWorkers |-> "idle"]
    /\ req = [w \in 1..NumWorkers |-> Nothing]
    /\ emp = [w \in 1..NumWorkers |-> Nothing]

InitExportIdle ==
    /\ xpc = "idle"
    /\ punches = <<>>
    /\ idx = 1
    /\ last_emp = Nothing
    /\ last_date = Nothing
    /\ in_time = Nothing
    /\ total_for_day = 0
    /\ prev_rows = Nothing
    /\ rows = <<>>

Init == InitLedger /\ InitRace /\ InitExportIdle

Next ==
    \/ \E payload \in Payloads : SubmitPunch(payload)
    \/ Tick

Spec == Init /\ [][Next]_vars

\* requests and reports, one handler at a time
NextLedgerReport ==
    \/ \E payload \in Payloads : SubmitPunch(payload)
    \/ Tick
    \/ ExportQuery
    \/ ExportRow
    \/ ExportFinal
    \/ ExportReturn

SpecLedgerReport == Init /\ [][NextLedgerReport]_vars

----------------------------------------------------------------------------
(* The report over drawn snapshots: export_csv is in its for loop over a  *)
(* query result drawn from the lists ORDER BY name, ts can return.        *)

ReportEmployeeIds == {1, 2}

ReportTimes == {At(0, 9, 0), At(0, 12, 0), At(1, 9, 0)}

ReportActions == {"in", "out", "break_in", "break_out", "IN"}

\* a stored punch of a directory employee, nothing overridden
StoredPunch(id, employee_id, ts, action) ==
    LET e == CHOOSE x \in InitEmployees : x.id = employee_id
    IN  Punch(id, employee_id, ts, action, Nothing, e.location_id, e.department_id)

\* the query results of at most n rows
RECURSIVE Snapshots(_)
Snapshots(n) ==
    IF n = 0 THEN {<<>>}
    ELSE LET shorter == Snapshots(n - 1)
             longest == { s \in shorter : Len(s) = n - 1 }
             fresh == { StoredPunch(n, e, t, a) :
                          e \in ReportEmployeeIds, t \in ReportTimes, a \in ReportActions }
         IN  shorter \cup
             { Append(sp[1], sp[2]) :
                 sp \in { x \in longest \X fresh :
                            Len(x[1]) = 0 \/ MayPrecede(x[1][Len(x[1])], x[2]) } }

\* one employee's day with a break between two work intervals
BreakScenario ==
    << StoredPunch(1, 1, At(0, 9, 0), "in"),
       StoredPunch(2, 1, At(0, 12, 0), "out"),
       StoredPunch(3, 1, At(0, 12, 0), "break_in"),
       StoredPunch(4, 1, At(0, 12, 30), "break_out"),
       StoredPunch(5, 1, At(0, 12, 30), "in"),
       StoredPunch(6, 1, At(0, 17, 0), "out") >>

InitReport ==
    /\ employees = InitEmployees
    /\ punches \in Snapshots(MaxSnapshot) \cup {BreakScenario}
    /\ punches_tbl = punches
    /\ now = TicksPerSecond * At(2, 0, 0)
    /\ response = NoResponse
    /\ InitRace
    /\ xpc = "scan"
    /\ rows = HeaderRows
    /\ idx = 1
    /\ last_emp = Nothing
    /\ last_date = Nothing
    /\ in_time = Nothing
    /\ total_for_day = 0
    /\ prev_rows = Nothing

NextReport ==
    \/ ExportRow
    \/ ExportFinal
    \/ ExportAgain

SpecReport == InitReport /\ [][NextReport]_vars

----------------------------------------------------------------------------
(* POST /api/punch handled by concurrent worker threads. Each thread has  *)
(* its own session; a step is one round trip to the database, which no    *)
(* lock or transaction of punch() ties to the next.                       *)

Finish(w, status) ==
    /\ response' = Response(status, req[w][1])
    /\ pc' = [pc EXCEPT ![w] = "idle"]
    /\ req' = [req EXCEPT ![w] = Nothing]
    /\ emp' = [emp EXCEPT ![w] = Nothing]

\* a request arrives and punch() runs its employee query
RaceBegin(w) ==
    /\ pc[w] = "idle"
    /\ xpc = "idle"
    /\ \E payload \in RacePayloads :
         \/ /\ ActiveEmployee(payload.qr_code_value) = {}
            /\ response' = Response(NotFoundError, payload)
            /\ UNCHANGED <<pc, req, emp>>
         \/ \E e \in ActiveEmployee(payload.qr_code_value) :
              /\ pc' = [pc EXCEPT ![w] = "check"]
              /\ req' = [req EXCEPT ![w] = Some(payload)]
              /\ emp' = [emp EXCEPT ![w] = Some(e)]
              /\ UNCHANGED response
    /\ UNCHANGED <<employees, punches_tbl, now>>
    /\ UNCHANGED exportVars

\* punch() runs its `last` query and the duplicate test
RaceCheck(w) ==
    /\ pc[w] = "check"
    /\ \/ /\ \E i \in LastCandidates(emp[w][1].id) :
                IsDuplicate(punches_tbl[i], req[w][1])
          /\ Finish(w, DuplicateError)
       \/ /\ \/ LastCandidates(emp[w][1].id) = {}
             \/ \E i \in LastCandidates(emp[w][1].id) :
                  ~IsDuplicate(punches_tbl[i], req[w][1])
          /\ pc' = [pc EXCEPT ![w] = "insert"]
          /\ UNCHANGED <<req, emp, response>>
    /\ UNCHANGED <<employees, punches_tbl, now>>
    /\ UNCHANGED exportVars

\* punch() reads the clock, adds the row and commits
RaceCommit(w) ==
    /\ pc[w] = "insert"
    /\ Len(punches_tbl) < MaxPunches
    /\ Insert(NewPunch(emp[w][1], req[w][1], NowTruncated(now)))
    /\ Finish(w, PunchRecorded)
    /\ UNCHANGED <<employees, now>>
    /\ UNCHANGED exportVars

NextRace ==
    \/ \E w \in 1..NumWorkers : RaceBegin(w)
    \/ \E w \in 1..NumWorkers : RaceCheck(w)
    \/ \E w \in 1..NumWorkers : RaceCommit(w)
    \/ Tick

SpecRace == Init /\ [][NextRace]_vars

----------------------------------------------------------------------------
(* Claims about POST /api/punch, one request at a time *)

\* a step in which a /api/punch request completed
PunchCompleted == response' # response \/ punches_tbl' # punches_tbl

\* two requests name the same employee code, action and job number
\* (absent and empty job numbers being the same)
SameSubmission(r1, r2) ==
    /\ r1.qr_code_value = r2.qr_code_value
    /\ r1.action = r2.action
    /\ (IF r1.m_number = Nothing THEN "" ELSE r1.m_number[1])
         = (IF r2.m_number = Nothing THEN "" ELSE r2.m_number[1])

\* the code names no employee that may punch
NoActiveMatch(qr) == ~ \E e \in employees : e.qr_code_value = qr /\ e.active = TRUE

\* C1: when a submission succeeded and the next submission repeats its
\* employee code, action and job number, the second one fails with
\* DuplicateError and appends nothing, whatever time has passed between them.
C1_RepeatRejected ==
    [][ ( /\ response.status = PunchRecorded
          /\ PunchCompleted
          /\ SameSubmission(response.request, response'.request) )
        => ( /\ response'.status = DuplicateError
             /\ punches_tbl' = punches_tbl ) ]_vars

\* C6: after a successful `in` with one job number, an `in` of the same
\* employee with a different job number succeeds and is appended too.
C6_JobChangeAccepted ==
    [][ ( /\ response.status = PunchRecorded
          /\ response.request.action = "in"
          /\ PunchCompleted
          /\ response'.request.qr_code_value = response.request.qr_code_value
          /\ response'.request.action = "in"
          /\ ~SameSubmission(response.request, response'.request) )
        => ( /\ response'.status = PunchRecorded
             /\ Len(punches_tbl') = Len(punches_tbl) + 1 ) ]_vars

\* C7: a request whose action is none of in, out, break_in, break_out is
\* answered with ValidationError, and every stored punch carries one of the
\* four actions.
C7_ActionValidated ==
    /\ \A i \in 1..Len(punches_tbl) : punches_tbl[i].action \in ValidActions
    /\ (response # NoResponse /\ response.request.action \notin ValidActions)
          => response.status = ValidationError

\* C8: a request whose code names no active employee is answered with
\* NotFoundError, and every request answered with NotFoundError or
\* DuplicateError leaves the punches table as it was.
C8_FailureLeavesLedger ==
    [][ PunchCompleted
        => ( /\ NoActiveMatch(response'.request.qr_code_value)
                  => response'.status = NotFoundError
             /\ response'.status \in {NotFoundError, DuplicateError}
                  => punches_tbl' = punches_tbl ) ]_vars

\* C8 witness: the deactivated employee's code was refused with punches stored
C8_Witness ==
    /\ response # NoResponse
    /\ response.status = NotFoundError
    /\ response.request.qr_code_value = "QR3"
    /\ Len(punches_tbl) > 0

\* rows i < j of the punches table that are consecutive rows of one employee
AdjacentOfEmployee(i, j) ==
    /\ i < j
    /\ punches_tbl[i].employee_id = punches_tbl[j].employee_id
    /\ \A k \in (i+1)..(j-1) : punches_tbl[k].employee_id # punches_tbl[i].employee_id

\* C2: under any interleaving of concurrent submissions the punches table
\* never holds two consecutive rows of one employee with the same action
\* and the same job number (absent and empty being the same): of two
\* concurrent identical submissions at most one appends.
C2_CheckAndAppendAtomic ==
    \A i, j \in 1..Len(punches_tbl) :
        AdjacentOfEmployee(i, j) =>
            ~ ( /\ punches_tbl[i].action = punches_tbl[j].action
                /\ (IF punches_tbl[i].m_number = Nothing THEN "" ELSE punches_tbl[i].m_number[1])
                     = (IF punches_tbl[j].m_number = Nothing THEN "" ELSE punches_tbl[j].m_number[1]) )

----------------------------------------------------------------------------
(* Claims about GET /api/export *)

\* the for loop handles punches[idx] in this step
RowScanned == xpc = "scan" /\ idx <= Len(punches) /\ idx' = idx + 1

\* the row the step wrote for that punch
WrittenRow == rows'[Len(rows')]

IsTotalRow(r) == Len(r) = 8 /\ r[5] = "TOTAL"

IsPunchRow(r) == Len(r) = 8 /\ r[5] \notin {"TOTAL", "Action"}

IsOpen(action) == action \in {"in", "IN", "break_in"}

\* C3: when the scan moves from one employee to the next, the row of the
\* next employee is handled by a fresh state machine: no duration comes from
\* the other employee's open timestamp and the day total restarts from zero.
C3_FreshAtEmployeeChange ==
    [][ ( /\ RowScanned
          /\ idx > 1
          /\ punches[idx].employee_id # punches[idx - 1].employee_id )
        => ( /\ WrittenRow[8] = ""
             /\ total_for_day' = 0
             /\ in_time' = IF IsOpen(punches[idx].action)
                           THEN <<punches[idx].ts>> ELSE <<>> ) ]_vars

\* the open `in` of the same employee that an `out` at position i closes: the
\* latest `in` before i with no `out` of that employee after it
MatchingIn(i) ==
    { j \in 1..(i - 1) :
        /\ punches[j].employee_id = punches[i].employee_id
        /\ punches[j].action \in {"in", "IN"}
        /\ \A k \in (j + 1)..(i - 1) :
             punches[k].employee_id = punches[i].employee_id
                => punches[k].action \notin {"in", "IN", "out"} }

\* C4: every duration written on an `out` row is out.ts minus the ts of the
\* same employee's matching open `in`, and neither a duration nor the running
\* day total is negative.
C4_WorkDurationExact ==
    [][ RowScanned
        => ( /\ total_for_day' >= 0
             /\ (punches[idx].action = "out" /\ WrittenRow[8] # "")
                  => \E j \in MatchingIn(idx) :
                       /\ punches[idx].ts - punches[j].ts >= 0
                       /\ WrittenRow[8] = HoursMinutes(punches[idx].ts - punches[j].ts) ) ]_vars

\* C5: in@09:00, out@12:00, break_in@12:00, break_out@12:30, in@12:30,
\* out@17:00 of one employee on one day, scanned in that order, give the
\* durations 3h 0m, BREAK 0h 30m and 4h 30m on the closing rows, none on the
\* others, and a day total of 27000 seconds (7.5h): the break is not counted.
C5_BreakScenario ==
    (punches = BreakScenario /\ xpc = "done")
        => /\ Len(rows) = 11
           /\ [i \in 1..6 |-> rows[4 + i][8]]
                = <<"", "3h 0m", "", "BREAK 0h 30m", "", "4h 30m">>
           /\ total_for_day = 27000
           /\ rows[11] = <<"Ann", "day0", "", "", "TOTAL", "", "", "7.5h">>

\* C5 witness: the report of the scenario is complete
C5_Witness == punches = BreakScenario /\ xpc = "done" /\ Len(rows) > 4

\* a TOTAL row and the blank row after it were written before the punch row
TotalWritten ==
    /\ Len(rows') = Len(rows) + 3
    /\ IsTotalRow(rows'[Len(rows') - 2])

\* C9: an `out` or `break_out` scanned while no interval is open (the slot is
\* empty, or the day boundary at this row has just emptied it) gets a row
\* with an empty duration, leaves the slot empty and adds nothing to the day
\* total (which restarts from zero when the row opens a new day), and the
\* finished report holds one row for every punch of the snapshot.
C9_OrphanCloseIgnored ==
    [][ /\ ( /\ RowScanned
             /\ (in_time = <<>> \/ TotalWritten)
             /\ punches[idx].action \in {"out", "break_out"} )
           => ( /\ IsPunchRow(WrittenRow)
                /\ WrittenRow[8] = ""
                /\ in_time' = <<>>
                /\ total_for_day' = IF TotalWritten THEN 0 ELSE total_for_day )
        /\ (xpc = "scan" /\ xpc' = "done")
           => Len(SelectSeq(rows', IsPunchRow)) = Len(punches) ]_vars

\* C9 witness: a report is complete whose first punch is an `out`, with
\* another punch after it
C9_Witness ==
    /\ xpc = "done"
    /\ Len(punches) >= 2
    /\ punches[1].action = "out"
    /\ rows[5][8] = ""
    /\ IsPunchRow(rows[6])

\* the punch row before row i, 0 when there is none
PreviousPunchRow(i) ==
    LET before == { j \in 1..(i - 1) : IsPunchRow(rows[j]) }
    IN  IF before = {} THEN 0 ELSE CHOOSE j \in before : \A k \in before : k <= j

\* row i is the first row of an employee other than the one before
FirstOfNewEmployee(i) ==
    /\ IsPunchRow(rows[i])
    /\ PreviousPunchRow(i) # 0
    /\ rows[PreviousPunchRow(i)][1] # rows[i][1]

\* C10 as stated: every TOTAL row and every first row of a new employee is
\* immediately preceded by a blank row.
C10_BlankBeforeTotal ==
    \A i \in 2..Len(rows) :
        (IsTotalRow(rows[i]) \/ FirstOfNewEmployee(i)) => rows[i - 1] = <<>>

\* C10 amended: every first row of a new employee is immediately preceded by
\* a blank row; every TOTAL row is immediately preceded by the last punch row
\* of the employee and date it names, and each TOTAL row but the last row of
\* the report is immediately followed by a blank row.
C10_BlankSeparators ==
    \A i \in 2..Len(rows) :
        /\ FirstOfNewEmployee(i) => rows[i - 1] = <<>>
        /\ IsTotalRow(rows[i])
             => /\ IsPunchRow(rows[i - 1])
                /\ rows[i - 1][1] = rows[i][1]
                /\ rows[i - 1][2] = rows[i][2]
                /\ i < Len(rows) => rows[i + 1] = <<>>

\* C10 witness: a finished report with a TOTAL row inside it and a change of
\* employee
C10_Witness ==
    /\ xpc = "done"
    /\ \E i \in 2..(Len(rows) - 1) : IsTotalRow(rows[i])
    /\ \E i \in 2..Len(rows) : FirstOfNewEmployee(i)

----------------------------------------------------------------------------
(* Further claims about POST /api/punch *)

\* C11: a successful submission adds exactly one row, which carries the
\* request's employee, action and job number, and changes no stored row and
\* no employee; no step ever changes or removes a stored row, so the table
\* only grows by appending.
C11_AppendOnly ==
    [][ /\ employees' = employees
        /\ Len(punches_tbl') >= Len(punches_tbl)
        /\ \A i \in 1..Len(punches_tbl) : punches_tbl'[i] = punches_tbl[i]
        /\ PunchCompleted
             => /\ now' = now
                /\ Len(punches_tbl') = Len(punches_tbl)
                     + (IF response'.status = PunchRecorded THEN 1 ELSE 0)
        /\ (PunchCompleted /\ response'.status = PunchRecorded)
             => LET p == punches_tbl'[Len(punches_tbl')]
                    r == response'.request
                IN  /\ p.id = Len(punches_tbl) + 1
                    /\ p.action = r.action
                    /\ p.m_number = r.m_number
                    /\ \E e \in employees :
                         e.qr_code_value = r.qr_code_value /\ e.id = p.employee_id ]_vars

\* C11 witness: a third punch was recorded after two stored ones
C11_Witness ==
    /\ Len(punches_tbl) = 3
    /\ response # NoResponse
    /\ response.status = PunchRecorded
    /\ punches_tbl[3].action = response.request.action

----------------------------------------------------------------------------
(* Further claims about GET /api/export *)

\* C12: the list the report query returns holds every stored punch exactly
\* once, with the employee, action, job number and timestamp it was stored
\* with, and holds nothing that is not stored.
C12_QueryRoundTrip ==
    xpc \in {"scan", "done"}
      => /\ \A i \in 1..Len(punches_tbl) :
              /\ Cardinality({ k \in 1..Len(punches) : punches[k].id = punches_tbl[i].id }) = 1
              /\ \A k \in 1..Len(punches) :
                   punches[k].id = punches_tbl[i].id
                     => /\ punches[k].employee_id = punches_tbl[i].employee_id
                        /\ punches[k].action = punches_tbl[i].action
                        /\ punches[k].m_number = punches_tbl[i].m_number
                        /\ punches[k].ts = punches_tbl[i].ts
         /\ \A k \in 1..Len(punches) :
              \E i \in 1..Len(punches_tbl) : punches_tbl[i] = punches[k]

\* C12 witness: two recorded punches with the same timestamp were queried
C12_Witness ==
    /\ xpc = "scan"
    /\ Len(punches_tbl) = 2
    /\ Len(punches) = 2
    /\ punches[1].ts = punches[2].ts
    /\ punches[1].employee_id = punches[2].employee_id

\* the TOTAL rows of a response, in the order written
TotalRowsOf(rs) == SelectSeq(rs, IsTotalRow)

\* C13: a second report over the same query result writes the same TOTAL
\* rows as the first: nothing the aggregator left behind reaches the next run.
C13_RerunSameTotals ==
    (xpc = "done" /\ prev_rows # Nothing)
      => TotalRowsOf(rows) = TotalRowsOf(prev_rows[1])

\* C13 witness: a second run ended after a first one that wrote two TOTAL
\* rows and stopped with an open timestamp
C13_Witness ==
    /\ xpc = "done"
    /\ prev_rows # Nothing
    /\ Len(TotalRowsOf(prev_rows[1])) = 2
    /\ in_time # Nothing

\* C14: the row a successful submission stores has the location the request
\* supplied, or the employee's location when the request supplied none, and
\* likewise the department, for every value the request can carry.
C14_OverrideOrInherit ==
    [][ (PunchCompleted /\ response'.status = PunchRecorded)
          => LET p == punches_tbl'[Len(punches_tbl')]
                 r == response'.request
                 e == CHOOSE x \in employees : x.id = p.employee_id
             IN  /\ p.location_id = (IF r.location_id # Nothing THEN r.location_id
                                     ELSE e.location_id)
                 /\ p.department_id = (IF r.department_id # Nothing THEN r.department_id
                                       ELSE e.department_id) ]_vars

\* the elapsed times a duration cell of this report can stand for
ElapsedTimes ==
    { punches[j].ts - punches[i].ts : i, j \in 1..Len(punches) }

\* the seconds of work a duration cell states: nothing for an empty cell and
\* for a BREAK cell
WorkSeconds(cell) ==
    IF \E delta \in ElapsedTimes : HoursMinutes(delta) = cell
    THEN CHOOSE delta \in ElapsedTimes : HoursMinutes(delta) = cell
    ELSE 0

RECURSIVE WorkEmitted(_, _, _)
\* the work durations written on the punch rows of employee e on date d
\* among the first k rows
WorkEmitted(e, d, k) ==
    IF k = 0 THEN 0
    ELSE WorkEmitted(e, d, k - 1)
           + (IF IsPunchRow(rows[k]) /\ rows[k][1] = e /\ rows[k][2] = d
              THEN WorkSeconds(rows[k][8]) ELSE 0)

\* C15: the finished report has, for every employee and date with a punch,
\* exactly one TOTAL row naming them, and its value is the sum of the work
\* durations written for that employee on that date.
C15_OneTotalPerEmployeeDay ==
    xpc = "done"
      => \A i \in 1..Len(punches) :
           LET e == (CHOOSE x \in employees : x.id = punches[i].employee_id).name
               d == IsoDate(punches[i].ts)
               totals == { k \in 1..Len(rows) :
                             IsTotalRow(rows[k]) /\ rows[k][1] = e /\ rows[k][2] = d }
           IN  /\ Cardinality(totals) = 1
               /\ \A k \in totals : rows[k][8] = TotalStr(WorkEmitted(e, d, Len(rows)))

\* the row being scanned is of the same employee as the row before it and
\* falls on another date
NextDayOfEmployee ==
    /\ RowScanned
    /\ idx > 1
    /\ punches[idx].employee_id = punches[idx - 1].employee_id
    /\ punches[idx].ts \div SecondsPerDay # punches[idx - 1].ts \div SecondsPerDay

\* C16: when an employee's next punch falls on another date than their
\* previous punch, the TOTAL row of the previous date is written before the
\* row of the new punch, the new punch gets no duration whatever its action,
\* the day total restarts from zero and only an opening punch leaves a
\* timestamp open.
C16_DayBoundary ==
    [][ NextDayOfEmployee
          => LET total == rows'[Len(rows) + 1]
                 prev == punches[idx - 1]
             IN  /\ Len(rows') = Len(rows) + 3
                 /\ IsTotalRow(total)
                 /\ total[1] = (CHOOSE x \in employees : x.id = prev.employee_id).name
                 /\ total[2] = IsoDate(prev.ts)
                 /\ total[8] = TotalStr(total_for_day)
                 /\ IsPunchRow(WrittenRow)
                 /\ WrittenRow[8] = ""
                 /\ total_for_day' = 0
                 /\ in_time' = (IF IsOpen(punches[idx].action)
                                THEN Some(punches[idx].ts) ELSE Nothing) ]_vars

\* C16 witness: an `in` on one day was followed by the same employee's `out`
\* on the next day, which has been written
C16_Witness ==
    /\ xpc = "scan"
    /\ idx = 3
    /\ punches[1].action = "in"
    /\ punches[2].action = "out"
    /\ punches[1].employee_id = punches[2].employee_id
    /\ punches[2].ts \div SecondsPerDay = punches[1].ts \div SecondsPerDay + 1
    /\ rows[Len(rows)][8] = ""
    /\ in_time = Nothing
    /\ total_for_day = 0

\* the row being scanned has action `closing` and follows, for the same
\* employee on the same date, a row with action `opening`, whose timestamp is
\* the open one
ScannedAfter(opening, closing) ==
    /\ RowScanned
    /\ idx > 1
    /\ punches[idx].employee_id = punches[idx - 1].employee_id
    /\ punches[idx].ts \div SecondsPerDay = punches[idx - 1].ts \div SecondsPerDay
    /\ punches[idx - 1].action = opening
    /\ punches[idx].action = closing
    /\ in_time = Some(punches[idx - 1].ts)

\* C17: a closing punch closes only an interval of its own kind: an `out`
\* scanned while a `break_in` is open gets no duration, adds nothing to the
\* day total and leaves nothing open; a `break_out` scanned while an `in` is
\* open gets no duration and leaves the total and the open `in` as they were.
C17_CloseOwnKindOnly ==
    [][ /\ ScannedAfter("break_in", "out")
          => /\ WrittenRow[8] = ""
             /\ total_for_day' = total_for_day
             /\ in_time' = Nothing
        /\ ScannedAfter("in", "break_out")
          => /\ WrittenRow[8] = ""
             /\ total_for_day' = total_for_day
             /\ in_time' = in_time ]_vars

\* the row being scanned is an `out` that follows, for the same employee on
\* the same date, a `break_in` and its `break_out`
OutAfterBreak ==
    /\ RowScanned
    /\ idx > 2
    /\ \A k \in {idx - 2, idx - 1} :
         /\ punches[k].employee_id = punches[idx].employee_id
         /\ punches[k].ts \div SecondsPerDay = punches[idx].ts \div SecondsPerDay
    /\ punches[idx - 2].action = "break_in"
    /\ punches[idx - 1].action = "break_out"
    /\ punches[idx].action = "out"

\* C18: a `break_out` scanned while its `break_in` is open gets the elapsed
\* time marked BREAK, adds nothing to the day total and leaves a timestamp
\* open (working, not idle), so that the `out` that follows it for the same
\* employee on the same date gets a work duration.
C18_BreakOutResumesWork ==
    [][ /\ ScannedAfter("break_in", "break_out")
          => /\ WrittenRow[8] = "BREAK " \o HoursMinutes(punches[idx].ts - punches[idx - 1].ts)
             /\ total_for_day' = total_for_day
             /\ in_time' # Nothing
        /\ OutAfterBreak
          => /\ WrittenRow[8] # ""
             /\ total_for_day' > total_for_day ]_vars

----------------------------------------------------------------------------
(* Ties between equal timestamps *)

\* the stored rows of an employee
RowsOfEmployee(employee_id) ==
    { i \in 1..Len(punches_tbl) : punches_tbl[i].employee_id = employee_id }

\* the employee's row that is greatest in (timestamp, insertion id) order
LatestByTimeThenId(employee_id) ==
    CHOOSE i \in RowsOfEmployee(employee_id) :
        \A j \in RowsOfEmployee(employee_id) :
            \/ punches_tbl[j].ts < punches_tbl[i].ts
            \/ (punches_tbl[j].ts = punches_tbl[i].ts /\ j <= i)

\* the row repeats the request's action and job number
Repeats(row, r) ==
    /\ row.action = r.action
    /\ (IF row.m_number = Nothing THEN "" ELSE row.m_number[1])
         = (IF r.m_number = Nothing THEN "" ELSE r.m_number[1])

\* C19: a submission of an employee with stored punches is refused as a
\* duplicate exactly when it repeats the employee's greatest row in
\* (timestamp, insertion id) order, and the report query lists the rows of one
\* employee that have equal timestamps in insertion order.
C19_TiesByInsertionOrder ==
    [][ /\ \A e \in employees :
             ( /\ PunchCompleted
               /\ e.active = TRUE
               /\ e.qr_code_value = response'.request.qr_code_value
               /\ RowsOfEmployee(e.id) # {} )
             => ( response'.status = DuplicateError
                    <=> Repeats(punches_tbl[LatestByTimeThenId(e.id)], response'.request) )
        /\ (xpc = "idle" /\ xpc' = "scan")
             => \A i, j \in 1..Len(punches') :
                  ( /\ i < j
                    /\ punches'[i].employee_id = punches'[j].employee_id
                    /\ punches'[i].ts = punches'[j].ts )
                  => punches'[i].id < punches'[j].id ]_vars

====
